---- MODULE Spec2Model ----
(***************************************************************************)
(* A model of budget_automation.py: the per-team budget metrics, the two   *)
(* spend aggregations over the flowplan table, the writer of the           *)
(* 'Automated Summary' sheet, and main, the pipeline that runs them.       *)
(*                                                                         *)
(* Numbers are integers (the code's floats are not rounded anywhere, and   *)
(* no claim is about rounding).  A cell of the sheet is missing (NaN /     *)
(* None), a number, or text.                                               *)
(***************************************************************************)
EXTENDS Integers, Sequences, FiniteSets, TLC

VARIABLES
    pc,             \* where the run is: a step of main, or a call of one function
    exc,            \* the exception that ended the run, "none" while there is none
    file_path,      \* FILE_PATH, a string as a sequence of characters
    current_month,  \* CURRENT_MONTH
    fs,             \* the file system: path -> workbook (a sequence of sheets)
    fs0,            \* the file system when the run started (history variable)
    df,             \* the DataFrame main passes around
    df0,            \* the DataFrame as loaded (history variable)
    budgets,        \* <<marcom_ltp, marcom_buffer, dm_ltp, dm_buffer>>, cells
    ytd,            \* <<marcom_ytd, dm_ytd>>, cells
    marcom_stats,   \* compute_team_stats' dict for MarCom
    dm_stats,       \* compute_team_stats' dict for Digital Marketing
    per_channel,    \* compute_channel_spend's frame: a sequence of records
    out_file,       \* the path write_automated_summary returned
    runs,           \* how many runs of main have started
    written         \* the summary sheet each completed run saved (history variable)

vars == <<pc, exc, file_path, current_month, fs, fs0, df, df0, budgets, ytd,
          marcom_stats, dm_stats, per_channel, out_file, runs, written>>

-----------------------------------------------------------------------------
(* Bounds of the model *)

\* Team figures (plan, buffer, YTD spend) range over -MaxAmount..MaxAmount.
MaxAmount == 3
\* A table has at most MaxRows rows.
MaxRows == 2
\* main is run at most MaxRuns times on the same file system.
MaxRuns == 2

-----------------------------------------------------------------------------
(* Cells *)

NaN == [k |-> "nan", n |-> 0, s |-> ""]
Num(x) == [k |-> "num", n |-> x, s |-> ""]
Str(t) == [k |-> "str", n |-> 0, s |-> t]

\* pandas' notna / isna on one cell
notna(c) == c.k # "nan"
isna(c) == c.k = "nan"

Max(a, b) == IF a >= b THEN a ELSE b
Min(a, b) == IF a <= b THEN a ELSE b

None == [k |-> "none"]

-----------------------------------------------------------------------------
(* compute_team_stats *)

\* The same with the buffer consumed from the base limit on, not from the plan.
compute_team_stats_base(ltp, buffer, ytd_spend) ==
    LET base_limit == ltp - buffer
        over_vs_base == ytd_spend - base_limit
        remaining_ltp == Max(ltp - ytd_spend, 0)
        consumed_buffer == Max(ytd_spend - base_limit, 0)
        remaining_buffer == Max(buffer - consumed_buffer, 0)
        ytg_total == Max(ltp + buffer - ytd_spend, 0)
    IN  [ltp |-> ltp, buffer |-> buffer, ytd_spend |-> ytd_spend,
         base_limit |-> base_limit, over_vs_base |-> over_vs_base,
         remaining_ltp |-> remaining_ltp, consumed_buffer |-> consumed_buffer,
         remaining_buffer |-> remaining_buffer, ytg_total |-> ytg_total]

\* The same without the clamp of remaining_ltp at zero.
compute_team_stats_noclamp(ltp, buffer, ytd_spend) ==
    LET base_limit == ltp - buffer
        over_vs_base == ytd_spend - base_limit
        remaining_ltp == ltp - ytd_spend
        consumed_buffer == Max(ytd_spend - ltp, 0)
        remaining_buffer == Max(buffer - consumed_buffer, 0)
        ytg_total == Max(ltp + buffer - ytd_spend, 0)
    IN  [ltp |-> ltp, buffer |-> buffer, ytd_spend |-> ytd_spend,
         base_limit |-> base_limit, over_vs_base |-> over_vs_base,
         remaining_ltp |-> remaining_ltp, consumed_buffer |-> consumed_buffer,
         remaining_buffer |-> remaining_buffer, ytg_total |-> ytg_total]

\* The same with the remaining buffer taken as the whole buffer.
compute_team_stats_fullbuffer(ltp, buffer, ytd_spend) ==
    LET base_limit == ltp - buffer
        over_vs_base == ytd_spend - base_limit
        remaining_ltp == Max(ltp - ytd_spend, 0)
        consumed_buffer == Max(ytd_spend - ltp, 0)
        remaining_buffer == Max(buffer, 0)
        ytg_total == Max(ltp + buffer - ytd_spend, 0)
    IN  [ltp |-> ltp, buffer |-> buffer, ytd_spend |-> ytd_spend,
         base_limit |-> base_limit, over_vs_base |-> over_vs_base,
         remaining_ltp |-> remaining_ltp, consumed_buffer |-> consumed_buffer,
         remaining_buffer |-> remaining_buffer, ytg_total |-> ytg_total]

compute_team_stats(ltp, buffer, ytd_spend) ==
    LET base_limit == ltp - buffer
        over_vs_base == ytd_spend - base_limit
        \* the plan is spent first, the buffer only once the plan is gone
        remaining_ltp == Max(ltp - ytd_spend, 0)
        consumed_buffer == Max(ytd_spend - ltp, 0)
        remaining_buffer == Max(buffer - consumed_buffer, 0)
        ytg_total == Max(ltp + buffer - ytd_spend, 0)
    IN  [ltp |-> ltp, buffer |-> buffer, ytd_spend |-> ytd_spend,
         base_limit |-> base_limit, over_vs_base |-> over_vs_base,
         remaining_ltp |-> remaining_ltp, consumed_buffer |-> consumed_buffer,
         remaining_buffer |-> remaining_buffer, ytg_total |-> ytg_total]

\* compute_team_stats as Python runs it on cell values: arithmetic on text
\* raises TypeError, on numbers it returns the dict.
team_stats_call(ltp, buffer, ytd_spend) ==
    IF ltp.k = "num" /\ buffer.k = "num" /\ ytd_spend.k = "num"
    THEN [exc |-> "none", ret |-> compute_team_stats(ltp.n, buffer.n, ytd_spend.n)]
    ELSE [exc |-> "TypeError", ret |-> None]

-----------------------------------------------------------------------------
(* The DataFrame: the columns it has, and its rows, each a function from   *)
(* these columns to cells                                                  *)

month_order ==
    <<"Jan", "Feb", "Mar", "Apr", "May", "Jun",
      "Jul", "Aug", "Sep", "Oct", "Nov", "Dec">>

Months == {month_order[i] : i \in 1..Len(month_order)}
KeyColumns == {"Actual", "Unnamed: 20", "CAMPAIGN", "Media"}

\* df[col] = value, for a column the frame does not have
with_column(frame, col, value) ==
    [columns |-> frame.columns \cup {col},
     rows |-> [i \in 1..Len(frame.rows) |-> (col :> value) @@ frame.rows[i]]]

RECURSIVE with_columns(_, _, _)
with_columns(frame, cols, value) ==
    IF cols = {} THEN frame
    ELSE LET c == CHOOSE x \in cols : TRUE
         IN  with_columns(IF c \in frame.columns THEN frame
                          ELSE with_column(frame, c, value),
                          cols \ {c}, value)

\* Series.fillna(0) on one cell
fillna0(c) == IF isna(c) THEN Num(0) ELSE c

\* The text pd.to_numeric parses, with its value (the numerals the tables use).
Numerals == ("0" :> 0) @@ ("7" :> 7)

\* pd.to_numeric(errors="coerce") on one cell: a number stays, text that
\* parses becomes its number, any other text becomes NaN.
to_numeric(c) ==
    CASE c.k = "num" -> c
      [] c.k = "nan" -> c
      [] OTHER -> IF c.s \in DOMAIN Numerals THEN Num(Numerals[c.s]) ELSE NaN

\* Python's + on two cell values
py_add(a, b) ==
    CASE a.k = "num" /\ b.k = "num" -> [exc |-> "none", ret |-> Num(a.n + b.n)]
      [] a.k = "str" /\ b.k = "str" -> [exc |-> "none", ret |-> Str(a.s \o b.s)]
      [] OTHER -> [exc |-> "TypeError", ret |-> None]

\* Series.sum() of a sequence of cells without NaN: the numeric sum when all
\* are numbers; on an object column Python's + runs over the values, which
\* concatenates text and raises TypeError on text and a number.
RECURSIVE series_sum_from(_, _, _)
series_sum_from(cells, i, acc) ==
    IF i > Len(cells) THEN [exc |-> "none", ret |-> acc]
    ELSE LET r == py_add(acc, cells[i])
         IN  IF r.exc # "none" THEN r ELSE series_sum_from(cells, i + 1, r.ret)

series_sum(cells) ==
    IF cells = <<>> THEN [exc |-> "none", ret |-> Num(0)]
    ELSE series_sum_from(cells, 2, cells[1])

RECURSIVE select_rows(_, _)
\* df[mask]: the indices i..Len(mask) of the rows the boolean mask keeps, in order
select_rows(mask, i) ==
    IF i > Len(mask) THEN <<>>
    ELSE (IF mask[i] THEN <<i>> ELSE <<>>) \o select_rows(mask, i + 1)

-----------------------------------------------------------------------------
(* compute_ytd_by_team *)

\* A campaign header row: CAMPAIGN is not NaN and Media is NaN.
is_campaign_row(row) == notna(row["CAMPAIGN"]) /\ isna(row["Media"])

\* Returns the pair (marcom_ytd, dm_ytd), or raises; frame is changed in place
\* (the columns added), which the caller sees.
compute_ytd_by_team(frame) ==
    LET df1 == with_columns(frame, KeyColumns, Num(0))
        campaign_rows ==
            select_rows([i \in 1..Len(df1.rows) |-> is_campaign_row(df1.rows[i])], 1)
        column(col) ==
            [j \in 1..Len(campaign_rows) |-> fillna0(df1.rows[campaign_rows[j]][col])]
        marcom == series_sum(column("Actual"))
        dm == series_sum(column("Unnamed: 20"))
    IN  IF marcom.exc # "none" THEN [exc |-> marcom.exc, ret |-> None, df |-> df1]
        ELSE IF dm.exc # "none" THEN [exc |-> dm.exc, ret |-> None, df |-> df1]
        ELSE [exc |-> "none", ret |-> <<marcom.ret, dm.ret>>, df |-> df1]

-----------------------------------------------------------------------------
(* compute_channel_spend *)

\* The slice without the current month: month_order[:current_month - 1].
slice_len_exclusive(m) ==
    IF m - 1 >= 0 THEN Min(m - 1, Len(month_order))
    ELSE Max(Len(month_order) + m - 1, 0)

\* month_order[:current_month], as the number of months it keeps
slice_len(m) ==
    IF m >= 0 THEN Min(m, Len(month_order)) ELSE Max(Len(month_order) + m, 0)

\* month_order[i] for a Python index i: 0 when it raises IndexError, else the
\* 1-based position
list_index(i) ==
    IF i >= Len(month_order) \/ i < 0 - Len(month_order) THEN 0
    ELSE IF i < 0 THEN i + Len(month_order) + 1
    ELSE i + 1

has_channel(row) == notna(row["Media"])

\* the sort order of the group keys: numbers by value, text by its place in
\* the sorted list of the channel names the tables use (a frame has keys of
\* one kind: the names read from the sheet, or the 0 of a column added)
SortedNames == <<"DV360", "Social">>
name_rank(t) == (CHOOSE i \in 1..Len(SortedNames) : SortedNames[i] = t)
key_rank(c) == IF c.k = "num" THEN c.n ELSE name_rank(c.s)

RECURSIVE sorted_keys(_)
sorted_keys(keys) ==
    IF keys = {} THEN <<>>
    ELSE LET k == CHOOSE x \in keys : \A y \in keys : key_rank(x) <= key_rank(y)
         IN  <<k>> \o sorted_keys(keys \ {k})

RECURSIVE int_sum(_)
int_sum(ns) == IF ns = <<>> THEN 0 ELSE Head(ns) + int_sum(Tail(ns))

\* pd.to_numeric(errors="coerce").fillna(0) on one cell, as a number
coerced(c) == fillna0(to_numeric(fillna0(c))).n

compute_channel_spend(frame, month) ==
    IF list_index(month - 1) = 0 THEN [exc |-> "IndexError", ret |-> <<>>]
    ELSE IF "Media" \notin frame.columns THEN [exc |-> "KeyError", ret |-> <<>>]
    ELSE
    LET n_active == slice_len(month)
        current == list_index(month - 1)
        \* the per-row cell of a month, 0.0 where the frame has no such column
        cell(row, i) ==
            IF month_order[i] \in frame.columns THEN row[month_order[i]] ELSE Num(0)
        channel_rows ==
            select_rows([i \in 1..Len(frame.rows) |-> has_channel(frame.rows[i])], 1)
        row_ytd(row) == int_sum([i \in 1..n_active |-> coerced(cell(row, i))])
        row_month(row) == coerced(cell(row, current))
        keys == sorted_keys({frame.rows[channel_rows[j]]["Media"] :
                                j \in 1..Len(channel_rows)})
        same_key(k) ==
            select_rows([i \in 1..Len(frame.rows) |->
                            has_channel(frame.rows[i]) /\ frame.rows[i]["Media"] = k], 1)
        group(k) ==
            LET members == same_key(k)
            IN  [Media |-> k,
                 YTD |-> int_sum([j \in 1..Len(members) |->
                                     row_ytd(frame.rows[members[j]])]),
                 MONTH |-> int_sum([j \in 1..Len(members) |->
                                     row_month(frame.rows[members[j]])])]
    IN  [exc |-> "none", ret |-> [j \in 1..Len(keys) |-> group(keys[j])]]

-----------------------------------------------------------------------------
(* Strings as sequences of characters, and str.replace *)

Xlsx == <<".", "x", "l", "s", "x">>
AutomatedXlsx ==
    <<"_", "a", "u", "t", "o", "m", "a", "t", "e", "d">> \o Xlsx

starts_with(str, old) ==
    Len(str) >= Len(old) /\ SubSeq(str, 1, Len(old)) = old

RECURSIVE str_replace(_, _, _)
\* str.replace(old, new): every occurrence of old, left to right (old is not empty)
str_replace(str, old, new) ==
    IF str = <<>> THEN <<>>
    ELSE IF starts_with(str, old)
         THEN new \o str_replace(SubSeq(str, Len(old) + 1, Len(str)), old, new)
         ELSE <<Head(str)>> \o str_replace(Tail(str), old, new)

\* file_path.replace(".xlsx", "_automated.xlsx")
out_path_of(path) == str_replace(path, Xlsx, AutomatedXlsx)

-----------------------------------------------------------------------------
(* Workbooks: a sequence of sheets.  The data sheet holds the table and the *)
(* four budget cells K2, K4, Q2, Q4; a summary sheet holds rows of cells.   *)

DataSheetName == "V2 2025 budget digital"
SummarySheetName == "Automated Summary"

NoDf == [columns |-> {}, rows |-> <<>>]

DataSheet(table, scalars) ==
    [title |-> DataSheetName, table |-> table, scalars |-> scalars, cells |-> <<>>]
CellSheet(title, cells) ==
    [title |-> title, table |-> NoDf, scalars |-> <<>>, cells |-> cells]

sheetnames(wb) == {wb[i].title : i \in 1..Len(wb)}
\* wb[name]: the position of the first sheet of that title
sheet_index(wb, name) == CHOOSE i \in 1..Len(wb) :
    wb[i].title = name /\ \A j \in 1..(i - 1) : wb[j].title # name

\* The sheet is left in the workbook.
keep_sheet(wb, name) == wb

\* wb.remove(wb[name])
remove_sheet(wb, name) ==
    LET i == sheet_index(wb, name)
    IN  SubSeq(wb, 1, i - 1) \o SubSeq(wb, i + 1, Len(wb))

\* wb.create_sheet(title): a new empty sheet at the end; openpyxl gives it
\* another title (a number appended) when the title is taken
create_sheet(wb, title) ==
    wb \o <<CellSheet(IF title \in sheetnames(wb) THEN title \o "1" ELSE title, <<>>)>>

\* the sort of the channel records by Media (sort_values)
sort_by_media(records) ==
    LET keys == sorted_keys({records[j].Media : j \in 1..Len(records)})
    IN  [j \in 1..Len(keys) |->
            records[CHOOSE i \in 1..Len(records) : records[i].Media = keys[j]]]

team_row(name, stats) ==
    <<Str(name), Num(stats.ltp), Num(stats.buffer), Num(stats.ytd_spend),
      Num(stats.base_limit), Num(stats.over_vs_base), Num(stats.remaining_ltp),
      Num(stats.consumed_buffer), Num(stats.remaining_buffer), Num(stats.ytg_total)>>

\* the cells the writer sets, row by row from row 1
summary_cells(m_stats, d_stats, channels, month) ==
    LET sorted == sort_by_media(channels)
    IN  << <<Str("Team"), Str("LTP"), Str("Buffer"), Str("YTD Spend"),
             Str("Base limit (LTP - buffer)"), Str("Over/(under) vs base"),
             Str("Remaining LTP"), Str("Consumed buffer"), Str("Remaining buffer"),
             Str("YTG total (LTP + buffer - YTD)")>>,
           team_row("MarCom", m_stats),
           team_row("Digital Marketing", d_stats),
           <<>>,
           <<[k |-> "str", n |-> month, s |-> "Channel spend (current month = {current_month})"]>>,
           <<Str("Channel"), Str("Spend YTD"), Str("Spend current month")>> >>
        \o [j \in 1..Len(sorted) |->
              <<sorted[j].Media, Num(sorted[j].YTD), Num(sorted[j].MONTH)>>]

\* ws[...] = value for every row of cells, on a sheet that may hold cells
set_cells(old, new) ==
    [i \in 1..Max(Len(old), Len(new)) |-> IF i <= Len(new) THEN new[i] ELSE old[i]]

\* write_automated_summary: the file system after it, and the path it returns
write_automated_summary(files, path, m_stats, d_stats, channels, month) ==
    IF path \notin DOMAIN files
    THEN [exc |-> "FileNotFoundError", fs |-> files, ret |-> <<>>]
    ELSE
    LET wb0 == files[path]
        wb1 == IF SummarySheetName \in sheetnames(wb0)
               THEN remove_sheet(wb0, SummarySheetName) ELSE wb0
        wb2 == create_sheet(wb1, SummarySheetName)
        ws == Len(wb2)
        wb3 == [wb2 EXCEPT ![ws].cells =
                   set_cells(@, summary_cells(m_stats, d_stats, channels, month))]
        out_path == out_path_of(path)
    IN  [exc |-> "none",
         fs |-> (out_path :> wb3) @@ files,
         ret |-> out_path]

\* load_flowplan_dataframe: the table of the data sheet
load_flowplan_dataframe(files, path) ==
    IF path \notin DOMAIN files THEN [exc |-> "FileNotFoundError", ret |-> NoDf]
    ELSE IF DataSheetName \notin sheetnames(files[path])
    THEN [exc |-> "ValueError", ret |-> NoDf]
    ELSE [exc |-> "none",
          ret |-> files[path][sheet_index(files[path], DataSheetName)].table]

\* value or 0
or_zero(c) ==
    IF c.k = "nan" \/ (c.k = "num" /\ c.n = 0) \/ (c.k = "str" /\ c.s = "")
    THEN Num(0) ELSE c

\* read_budgets_and_buffers: (marcom_ltp, marcom_buffer, dm_ltp, dm_buffer)
\* from the cells (K2, K4, Q2, Q4)
read_budgets_and_buffers(files, path) ==
    IF path \notin DOMAIN files THEN [exc |-> "FileNotFoundError", ret |-> <<>>]
    ELSE IF DataSheetName \notin sheetnames(files[path])
    THEN [exc |-> "KeyError", ret |-> <<>>]
    ELSE LET ws == files[path][sheet_index(files[path], DataSheetName)]
         IN  [exc |-> "none",
              ret |-> <<or_zero(ws.scalars[1]), or_zero(ws.scalars[2]),
                        or_zero(ws.scalars[3]), or_zero(ws.scalars[4])>>]

-----------------------------------------------------------------------------
(* The tables the aggregations are run on *)

CampaignCells == {NaN, Str("Camp1")}
MediaCells == {NaN} \cup {Str(SortedNames[i]) : i \in 1..Len(SortedNames)}
\* a spend cell: missing, a number, text that is no number, text that is one
SpendCells == {NaN, Num(2), Str("n/a"), Str("7")}

\* the cells of the channel tables: of the month column that differs from row
\* to row, and of the other month columns
HotCells == {NaN, Num(2), Str("n/a")}
FillCells == {Num(1), Str("7")}

\* A table for the channel aggregation.  It has the Media column and the
\* month column hot, where every row has a cell of its own; the other month
\* columns are either absent or hold the same cell, fill, in every row.
ChannelTable(hot, others, fill, medias, cells) ==
    LET columns == {"Media", month_order[hot]} \cup (IF others THEN Months ELSE {})
    IN  [columns |-> columns,
         rows |-> [i \in 1..Len(medias) |->
                     [c \in columns |->
                        IF c = "Media" THEN medias[i]
                        ELSE IF c = month_order[hot] THEN cells[i]
                        ELSE fill]]]

\* A table for the team aggregation.  It has the key columns cols and the
\* column Jan, where every row has spent 1.
TeamTable(cols, campaigns, medias, actuals, dms) ==
    [columns |-> cols \cup {"Jan"},
     rows |-> [i \in 1..Len(campaigns) |->
                 [c \in cols \cup {"Jan"} |->
                    CASE c = "CAMPAIGN" -> campaigns[i]
                      [] c = "Media" -> medias[i]
                      [] c = "Actual" -> actuals[i]
                      [] c = "Unnamed: 20" -> dms[i]
                      [] OTHER -> Num(1)]]]

\* a current month of the calendar: 1 = Jan, ..., 12 = Dec
ValidMonth(m) == m \in 1..Len(month_order)

NoFs == <<>>
NoPath == <<>>

\* what a run that calls one function leaves alone
Idle ==
    /\ exc = "none"
    /\ file_path = NoPath
    /\ fs = NoFs
    /\ fs0 = NoFs
    /\ budgets = <<Num(0), Num(0), Num(0), Num(0)>>
    /\ ytd = <<Num(0), Num(0)>>
    /\ marcom_stats = None
    /\ dm_stats = None
    /\ per_channel = <<>>
    /\ out_file = NoPath
    /\ runs = 0
    /\ written = <<>>

InitChannel ==
    /\ pc = "call_channel"
    /\ Idle
    /\ current_month \in 1..Len(month_order)
    /\ \E n \in 0..MaxRows, hot \in 1..Len(month_order), others \in BOOLEAN :
         \E fill \in IF others THEN FillCells ELSE {NaN} :
           \E medias \in [1..n -> MediaCells], cells \in [1..n -> HotCells] :
              df = ChannelTable(hot, others, fill, medias, cells)
    /\ df0 = df

InitAgg ==
    /\ pc = "call_ytd"
    /\ Idle
    /\ current_month \in {1, Len(month_order)}
    /\ \E n \in 0..MaxRows, cols \in SUBSET KeyColumns :
         \E campaigns \in [1..n -> IF "CAMPAIGN" \in cols THEN CampaignCells ELSE {NaN}],
            medias \in [1..n -> IF "Media" \in cols THEN MediaCells ELSE {NaN}],
            actuals \in [1..n -> IF "Actual" \in cols THEN SpendCells ELSE {NaN}],
            dms \in [1..n -> IF "Unnamed: 20" \in cols THEN SpendCells ELSE {NaN}] :
              df = TeamTable(cols, campaigns, medias, actuals, dms)
    /\ df0 = df

\* main, step 3
CallYtdByTeam ==
    /\ pc = "call_ytd"
    /\ LET r == compute_ytd_by_team(df)
       IN  /\ exc' = r.exc
           /\ df' = r.df
           /\ ytd' = IF r.exc = "none" THEN r.ret ELSE ytd
           /\ pc' = IF r.exc = "none" THEN "call_channel" ELSE "raised"
    /\ UNCHANGED <<file_path, current_month, fs, fs0, df0, budgets,
                   marcom_stats, dm_stats, per_channel, out_file, runs, written>>

\* main, step 5
CallChannelSpend ==
    /\ pc = "call_channel"
    /\ LET r == compute_channel_spend(df, current_month)
       IN  /\ exc' = r.exc
           /\ per_channel' = r.ret
           /\ pc' = IF r.exc = "none" THEN "ret_channel" ELSE "raised"
    /\ UNCHANGED <<file_path, current_month, fs, fs0, df, df0, budgets, ytd,
                   marcom_stats, dm_stats, out_file, runs, written>>

NextChannel == CallChannelSpend
SpecChannel == InitChannel /\ [][NextChannel]_vars

NextAgg == CallYtdByTeam \/ CallChannelSpend
SpecAgg == InitAgg /\ [][NextAgg]_vars

-----------------------------------------------------------------------------
(* main: the steps in the order main runs them, each ending the run when   *)
(* it raises                                                               *)

\* The order with the sheet written before the channels are aggregated.
main_order_write_early == <<"load", "read", "ytd", "stats", "write", "channel">>

main_order == <<"load", "read", "ytd", "stats", "channel", "write">>

\* where main is after the step has ended with exception e ("none": returned)
after(step, e) ==
    IF e # "none" THEN "raised"
    ELSE LET i == CHOOSE j \in 1..Len(main_order) : main_order[j] = step
         IN  IF i = Len(main_order) THEN "done" ELSE main_order[i + 1]

\* the files main may be started on
InputPaths ==
    { <<"b">> \o Xlsx,
      <<"b", ".", "x", "l", "s", "m">>,
      <<"b", ".", "X", "L", "S", "X">> }

\* CURRENT_MONTH as configured: the month of the source (11), and values
\* outside 1..12 on both sides
ConfigMonths ==
    {0 - Len(month_order), -1, 0, Len(month_order) - 1, Len(month_order) + 1}

\* the rows of the tables main is started on, as (CAMPAIGN, Media, Actual):
\* a campaign row, a campaign row whose spend is text, rows of two channels
RowKinds ==
    { <<Str("Camp1"), NaN, Num(2)>>, <<Str("Camp1"), NaN, Str("n/a")>>,
      <<NaN, Str("DV360"), NaN>>, <<NaN, Str("Social"), NaN>> }

MainTable(kinds, with_media) ==
    LET columns == {"CAMPAIGN", "Actual", "Unnamed: 20", "Jan", "Nov"}
                      \cup (IF with_media THEN {"Media"} ELSE {})
    IN  [columns |-> columns,
         rows |-> [i \in 1..Len(kinds) |->
                     [c \in columns |->
                        CASE c = "CAMPAIGN" -> kinds[i][1]
                          [] c = "Media" -> kinds[i][2]
                          [] c = "Actual" -> kinds[i][3]
                          [] c = "Nov" -> Num(2)
                          [] OTHER -> Num(1)]]]

\* the cells K2, K4, Q2, Q4: all set; K2 (the MarCom plan) empty; K2 text
ScalarCells ==
    { <<Num(3), Num(1), Num(2), NaN>>,
      <<NaN, Num(1), Num(2), Num(1)>>,
      <<Str("n/a"), Num(1), Num(2), Num(1)>> }

\* a summary sheet of an earlier run, on other data: more channel rows
StaleCells == [i \in 1..9 |-> <<Str("old"), Num(i), Num(i)>>]
StaleSheet == CellSheet(SummarySheetName, StaleCells)
NotesSheet == CellSheet("Notes", <<>>)

Workbooks(table, scalars) ==
    { <<DataSheet(table, scalars)>>,
      <<DataSheet(table, scalars), StaleSheet>>,
      <<StaleSheet, DataSheet(table, scalars), NotesSheet>> }

Init ==
    /\ pc = "load"
    /\ exc = "none"
    /\ file_path \in InputPaths
    /\ current_month \in ConfigMonths
    /\ \/ fs = <<>>
       \/ fs = (file_path :> <<NotesSheet>>)
       \/ \E n \in 0..MaxRows, with_media \in BOOLEAN, scalars \in ScalarCells :
            \E kinds \in [1..n -> RowKinds] :
              \E wb \in Workbooks(MainTable(kinds, with_media), scalars) :
                 fs = (file_path :> wb)
    /\ fs0 = fs
    /\ df = NoDf
    /\ df0 = NoDf
    /\ budgets = <<Num(0), Num(0), Num(0), Num(0)>>
    /\ ytd = <<Num(0), Num(0)>>
    /\ marcom_stats = None
    /\ dm_stats = None
    /\ per_channel = <<>>
    /\ out_file = NoPath
    /\ runs = 1
    /\ written = <<>>

\* 1) df = load_flowplan_dataframe(FILE_PATH)
Load ==
    /\ pc = "load"
    /\ LET r == load_flowplan_dataframe(fs, file_path)
       IN  /\ exc' = r.exc
           /\ df' = r.ret
           /\ df0' = r.ret
           /\ pc' = after("load", r.exc)
    /\ UNCHANGED <<file_path, current_month, fs, fs0, budgets, ytd,
                   marcom_stats, dm_stats, per_channel, out_file, runs, written>>

\* 2) read_budgets_and_buffers(FILE_PATH)
ReadBudgets ==
    /\ pc = "read"
    /\ LET r == read_budgets_and_buffers(fs, file_path)
       IN  /\ exc' = r.exc
           /\ budgets' = IF r.exc = "none" THEN r.ret ELSE budgets
           /\ pc' = after("read", r.exc)
    /\ UNCHANGED <<file_path, current_month, fs, fs0, df, df0, ytd,
                   marcom_stats, dm_stats, per_channel, out_file, runs, written>>

\* 3) marcom_ytd, dm_ytd = compute_ytd_by_team(df)
YtdByTeam ==
    /\ pc = "ytd"
    /\ LET r == compute_ytd_by_team(df)
       IN  /\ exc' = r.exc
           /\ df' = r.df
           /\ ytd' = IF r.exc = "none" THEN r.ret ELSE ytd
           /\ pc' = after("ytd", r.exc)
    /\ UNCHANGED <<file_path, current_month, fs, fs0, df0, budgets,
                   marcom_stats, dm_stats, per_channel, out_file, runs, written>>

\* 4) marcom_stats, then dm_stats
TeamStats ==
    /\ pc = "stats"
    /\ LET m == team_stats_call(budgets[1], budgets[2], ytd[1])
           d == team_stats_call(budgets[3], budgets[4], ytd[2])
           e == IF m.exc # "none" THEN m.exc ELSE d.exc
       IN  /\ exc' = e
           /\ marcom_stats' = m.ret
           /\ dm_stats' = IF m.exc = "none" THEN d.ret ELSE dm_stats
           /\ pc' = after("stats", e)
    /\ UNCHANGED <<file_path, current_month, fs, fs0, df, df0, budgets, ytd,
                   per_channel, out_file, runs, written>>

\* 5) per_channel = compute_channel_spend(df, CURRENT_MONTH)
ChannelSpend ==
    /\ pc = "channel"
    /\ LET r == compute_channel_spend(df, current_month)
       IN  /\ exc' = r.exc
           /\ per_channel' = r.ret
           /\ pc' = after("channel", r.exc)
    /\ UNCHANGED <<file_path, current_month, fs, fs0, df, df0, budgets, ytd,
                   marcom_stats, dm_stats, out_file, runs, written>>

\* 6) out_file = write_automated_summary(...), up to and with wb.save
WriteSummary ==
    /\ pc = "write"
    /\ LET r == write_automated_summary(fs, file_path, marcom_stats, dm_stats,
                                        per_channel, current_month)
       IN  /\ exc' = r.exc
           /\ fs' = r.fs
           /\ out_file' = r.ret
           /\ written' = IF r.exc = "none"
                         THEN Append(written, r.fs[r.ret][Len(r.fs[r.ret])].cells)
                         ELSE written
           /\ pc' = after("write", r.exc)
    /\ UNCHANGED <<file_path, current_month, fs0, df, df0, budgets, ytd,
                   marcom_stats, dm_stats, per_channel, runs>>

\* the script is run again, on the files the earlier run left
RunAgain ==
    /\ pc \in {"done", "raised"}
    /\ runs < MaxRuns
    /\ pc' = "load"
    /\ exc' = "none"
    /\ fs0' = fs
    /\ df' = NoDf
    /\ df0' = NoDf
    /\ budgets' = <<Num(0), Num(0), Num(0), Num(0)>>
    /\ ytd' = <<Num(0), Num(0)>>
    /\ marcom_stats' = None
    /\ dm_stats' = None
    /\ per_channel' = <<>>
    /\ out_file' = NoPath
    /\ runs' = runs + 1
    /\ UNCHANGED <<file_path, current_month, fs, written>>

Next ==
    \/ Load
    \/ ReadBudgets
    \/ YtdByTeam
    \/ TeamStats
    \/ ChannelSpend
    \/ WriteSummary
    \/ RunAgain

Spec == Init /\ [][Next]_vars

-----------------------------------------------------------------------------
(* What the aggregates are claimed to be, stated on the table as given     *)

\* a row's field: empty when the table has no such column
field(frame, i, col) ==
    IF col \in frame.columns THEN frame.rows[i][col] ELSE NaN

is_text(c) == c.k = "str"
is_numeral(c) == c.k = "str" /\ c.s \in DOMAIN Numerals

\* the amount a spend cell stands for: its number; zero when it is missing
\* or holds text that is no number
amount(c) ==
    IF c.k = "num" THEN c.n
    ELSE IF is_numeral(c) THEN Numerals[c.s]
    ELSE 0

RECURSIVE total(_, _)
\* the sum of the function f over the finite set S
total(S, f) ==
    IF S = {} THEN 0
    ELSE LET x == CHOOSE y \in S : TRUE
         IN  f[x] + total(S \ {x}, f)

RowsOf(frame) == 1..Len(frame.rows)
SummaryRows(frame) ==
    {i \in RowsOf(frame) :
        notna(field(frame, i, "CAMPAIGN")) /\ isna(field(frame, i, "Media"))}
DetailRows(frame) == {i \in RowsOf(frame) : notna(field(frame, i, "Media"))}
ChannelNames(frame) == {field(frame, i, "Media") : i \in DetailRows(frame)}

\* the sum of one column over the campaign-summary rows
TeamTotal(frame, col) ==
    total(SummaryRows(frame), [i \in RowsOf(frame) |-> amount(field(frame, i, col))])

\* the sum of the months first..last over the rows of one channel
ChannelTotal(frame, name, first, last) ==
    LET of_row ==
            [i \in RowsOf(frame) |->
               total(first..last,
                     [m \in first..last |-> amount(field(frame, i, month_order[m]))])]
    IN  total({i \in DetailRows(frame) : field(frame, i, "Media") = name}, of_row)

\* per_channel is the aggregate of the table's channel-detail rows for month m
IsChannelAggregate(frame, m) ==
    /\ Len(per_channel) = Cardinality(ChannelNames(frame))
    /\ {per_channel[j].Media : j \in 1..Len(per_channel)} = ChannelNames(frame)
    /\ \A j \in 1..Len(per_channel) :
         /\ per_channel[j].YTD = ChannelTotal(frame, per_channel[j].Media, 1, m)
         /\ per_channel[j].MONTH = ChannelTotal(frame, per_channel[j].Media, m, m)

\* C3: for every table and every current month M in 1..12, compute_channel_spend
\* returns one record per distinct channel name of the rows with a channel,
\* whose YTD is the sum of the months Jan..M over the channel's rows and whose
\* current-month value is the sum of month M over them.
C3_ChannelSpend ==
    (pc \in {"ret_channel", "raised"} /\ ValidMonth(current_month))
        => /\ pc = "ret_channel"
           /\ IsChannelAggregate(df0, current_month)

\* M = 12 and two rows of one channel, December holding 2 in one and text in
\* the other, every other month 1: the record sums both rows over the year
C3_Witness ==
    /\ pc = "ret_channel"
    /\ current_month = Len(month_order)
    /\ Len(df0.rows) = 2
    /\ Len(per_channel) = 1
    /\ \E i \in RowsOf(df0) : is_text(field(df0, i, "Dec"))
    /\ per_channel[1].MONTH = 2
    /\ per_channel[1].YTD = 2 + 2 * (Len(month_order) - 1)

\* every spend cell is a number or missing
SpendIsNumeric(frame) ==
    \A i \in RowsOf(frame), col \in {"Actual", "Unnamed: 20"} :
        ~is_text(field(frame, i, col))

\* C5 as claimed (on the tables whose spend cells are numbers or missing):
\* the team sums run over exactly the rows with a campaign and no channel, the
\* channel aggregate over exactly the rows with a channel.
C5_AsClaimed ==
    (pc = "ret_channel" /\ SpendIsNumeric(df0))
        => /\ ytd[1] = Num(TeamTotal(df0, "Actual"))
           /\ ytd[2] = Num(TeamTotal(df0, "Unnamed: 20"))
           /\ IsChannelAggregate(df0, current_month)

\* no spend cell holds a number written as text
NoNumerals(frame) ==
    \A i \in RowsOf(frame), col \in {"Actual", "Unnamed: 20"} :
        ~is_numeral(field(frame, i, col))

\* C6 as claimed (on the tables that have all four columns and no number
\* written as text): a spend cell that is missing or holds text counts as zero
\* in the sums, and no such cell makes either aggregation raise.
C6_AsClaimed ==
    (/\ pc \in {"call_channel", "ret_channel", "raised"}
     /\ KeyColumns \subseteq df0.columns
     /\ NoNumerals(df0))
        => /\ exc = "none"
           /\ ytd[1] = Num(TeamTotal(df0, "Actual"))
           /\ ytd[2] = Num(TeamTotal(df0, "Unnamed: 20"))
           /\ pc = "ret_channel" => IsChannelAggregate(df0, current_month)

-----------------------------------------------------------------------------
(* Claims about main and the writer, under Spec *)

\* C4 as claimed: a current month outside 1..12 is rejected; the channel
\* aggregation never returns an aggregate for it, and main never goes on to
\* write one.
C4_AsClaimed ==
    ~ValidMonth(current_month)
        => /\ pc \notin {"write", "done"}
           /\ per_channel = <<>>

\* the places of the sheets titled 'Automated Summary' in a workbook
SummarySheets(wb) == {i \in 1..Len(wb) : wb[i].title = SummarySheetName}

\* C7: whatever the workbook held, and however often main has run on it, the
\* saved workbook has exactly one 'Automated Summary' sheet; its cells are the
\* header, the two team rows and one row per channel of this run, with no row
\* left over from an earlier sheet, and every run has saved the same cells.
C7_Replaces ==
    pc = "done"
        => LET wb == fs[out_file]
           IN  /\ Cardinality(SummarySheets(wb)) = 1
               /\ \A i \in SummarySheets(wb) :
                    /\ wb[i].cells = summary_cells(marcom_stats, dm_stats,
                                                   per_channel, current_month)
                    /\ Len(wb[i].cells) = 6 + Len(per_channel)
                    /\ \A r \in 1..Len(written) : written[r] = wb[i].cells

\* the second run has ended, on a workbook that came with a longer summary
\* sheet of its own, and has written a row for a channel
C7_Witness ==
    /\ pc = "done"
    /\ Len(written) = 2
    /\ SummarySheetName \in sheetnames(fs0[file_path])
    /\ per_channel # <<>>
    /\ Len(StaleCells) > 6 + Len(per_channel)

\* C8 as claimed (for a run with a current month in 1..12): the summary is
\* saved to a path other than the input path, and the input file is left as
\* it was.
C8_AsClaimed ==
    (pc = "done" /\ ValidMonth(current_month))
        => /\ out_file # file_path
           /\ fs[file_path] = fs0[file_path]

\* C9: no file is created or changed before the last step: while main is at
\* any step, and when a step has raised, the files are those the run started
\* on; files differ from them only once every step has returned.
C9_SaveLast ==
    /\ pc # "done" => fs = fs0
    /\ fs # fs0
         => /\ exc = "none"
            /\ marcom_stats # None /\ dm_stats # None
            /\ DataSheetName \in sheetnames(fs0[file_path])

\* the last step before the write has raised, after both team statistics
\* were computed: the run has aborted and the files are as they were
C9_Witness ==
    /\ pc = "raised"
    /\ exc = "IndexError"
    /\ marcom_stats # None /\ dm_stats # None
    /\ file_path \in DOMAIN fs
    /\ fs = fs0
    /\ out_file = NoPath

-----------------------------------------------------------------------------
(* The metrics calculator on its own: every triple of amounts *)

Amounts == (0 - MaxAmount)..MaxAmount

InitStats ==
    /\ pc = "call_stats"
    /\ exc = "none"
    /\ file_path = NoPath
    /\ current_month = 0
    /\ fs = NoFs
    /\ fs0 = NoFs
    /\ df = NoDf
    /\ df0 = NoDf
    /\ \E l \in Amounts, b \in Amounts : budgets = <<Num(l), Num(b), Num(0), Num(0)>>
    /\ \E y \in Amounts : ytd = <<Num(y), Num(0)>>
    /\ marcom_stats = None
    /\ dm_stats = None
    /\ per_channel = <<>>
    /\ out_file = NoPath
    /\ runs = 0
    /\ written = <<>>

\* main, step 4, for one team
CallTeamStats ==
    /\ pc = "call_stats"
    /\ LET r == team_stats_call(budgets[1], budgets[2], ytd[1])
       IN  /\ exc' = r.exc
           /\ marcom_stats' = r.ret
    /\ pc' = "ret_stats"
    /\ UNCHANGED <<file_path, current_month, fs, fs0, df, df0, budgets, ytd,
                   dm_stats, per_channel, out_file, runs, written>>

NextStats == CallTeamStats

SpecStats == InitStats /\ [][NextStats]_vars

\* the call's arguments, as numbers
plan == budgets[1].n
buffer == budgets[2].n
ytdSpend == ytd[1].n
Returned == pc = "ret_stats" /\ exc = "none"

\* C1 as claimed: whenever ytdSpend <= plan + buffer (negative plan or buffer
\* included), ytg_total = remaining_ltp + remaining_buffer.
C1_AsClaimed ==
    (Returned /\ ytdSpend <= plan + buffer)
        => marcom_stats.ytg_total
             = marcom_stats.remaining_ltp + marcom_stats.remaining_buffer

\* C1 amended: whenever ytdSpend <= plan + buffer and the buffer is not
\* negative (the plan may be), ytg_total = remaining_ltp + remaining_buffer.
C1_YtgSplits ==
    (Returned /\ ytdSpend <= plan + buffer /\ buffer >= 0)
        => marcom_stats.ytg_total
             = marcom_stats.remaining_ltp + marcom_stats.remaining_buffer

\* a negative plan, a spend on the boundary plan + buffer, a result returned
C1_Witness ==
    /\ Returned
    /\ plan < 0 /\ buffer > 0 /\ ytdSpend = plan + buffer
    /\ marcom_stats.ytg_total = 0

\* C2: compute_team_stats returns for every triple, and remaining_ltp,
\* remaining_buffer and ytg_total are all >= 0.
C2_NonNegative ==
    pc = "ret_stats"
        => /\ exc = "none"
           /\ marcom_stats.remaining_ltp >= 0
           /\ marcom_stats.remaining_buffer >= 0
           /\ marcom_stats.ytg_total >= 0

\* every argument negative, the spend past plan and buffer: all three clamps act
C2_Witness ==
    /\ Returned
    /\ plan < 0 /\ buffer < 0 /\ ytdSpend > Max(plan, plan + buffer)
    /\ marcom_stats.remaining_ltp = 0
    /\ marcom_stats.remaining_buffer = 0
    /\ marcom_stats.ytg_total = 0

\* C10: the plan is consumed before the buffer: consumed_buffer > 0 exactly
\* when ytdSpend > plan; remaining_ltp and consumed_buffer are never both
\* positive; remaining_buffer = max(buffer, 0) whenever ytdSpend <= plan.
C10_PlanFirst ==
    Returned
        => /\ (marcom_stats.consumed_buffer > 0) <=> (ytdSpend > plan)
           /\ ~(marcom_stats.remaining_ltp > 0 /\ marcom_stats.consumed_buffer > 0)
           /\ (ytdSpend <= plan) => marcom_stats.remaining_buffer = Max(buffer, 0)

\* a spend between the base limit and the plan: the buffer is still untouched
C10_Witness ==
    /\ Returned
    /\ buffer > 0 /\ ytdSpend > plan - buffer /\ ytdSpend < plan
    /\ marcom_stats.consumed_buffer = 0
    /\ marcom_stats.remaining_buffer = buffer

====
